---- MODULE Spec2Model ----
(***************************************************************************)
(* A model of the Loopuman Python client (src/loopuman/client.py) and its  *)
(* framework adapters (src/loopuman/tools.py): the transport's error       *)
(* mapping, the normalisation of a server payload into a Task, the         *)
(* creation request, the polling loop of wait, ask, and the adapters.      *)
(*                                                                         *)
(* Python values are modelled as follows.  A dict is a function from key   *)
(* strings to values; d.get(k, default) is Get.  A text whose characters   *)
(* the code inspects (an error message, a raw body) is a sequence of       *)
(* one-character strings; a text the code only passes around (an id, a     *)
(* status, a result) is a string.  A text the code builds with an f-string *)
(* is a record of its format pieces and arguments (PyStr).                 *)
(*                                                                         *)
(* Spec is the client with one caller invoking one entry point; the        *)
(* remote service answers each request with any response of the sets       *)
(* below.  LiveSpec is wait alone, with the calling thread weakly fair.    *)
(* The observers (creates, budget_vae, fetches, fetch_id, sleeps, clean,   *)
(* wait_exit) record what the program did; the program never reads them.   *)
(***************************************************************************)
EXTENDS Integers, Sequences, FiniteSets, TLC

VARIABLES
    pc,             \* position of the single calling thread
    op,             \* the entry point the caller invoked
    poll_interval,  \* wait's poll_interval argument
    max_wait,       \* wait's max_wait argument
    task_id,        \* wait's task_id argument
    elapsed,        \* wait's local elapsed
    task,           \* wait's local task (the Task of the latest get_task)
    resp,           \* the latest HTTP response the session returned
    creates,        \* observer: the requests the creations sent
    budget_vae,     \* observer: the budget_vae argument the caller gave
    fetches,        \* observer: number of GET /tasks/{id} requests sent
    fetch_id,       \* observer: the id of the latest GET /tasks/{id}
    sleeps,         \* observer: number of time.sleep calls
    clean,          \* observer: every fetch before the latest reported a non-terminal status
    wait_exit,      \* observer: how wait ended
    outcome,        \* how the entry point ended: "none", "returned", "raised"
    ret_task,       \* the Task the entry point returned
    ret_text,       \* the text the entry point returned
    ret_data,       \* the parsed body the entry point returned
    exc             \* the exception the entry point let escape

vars == <<pc, op, poll_interval, max_wait, task_id, elapsed, task, resp, creates, budget_vae,
          fetches, fetch_id, sleeps, clean, wait_exit, outcome, ret_task, ret_text, ret_data, exc>>

-----------------------------------------------------------------------------
(* Bounds of the model.                                                    *)

MaxPoll == 3
MaxWait == 4
MaxBudget == 12
MaxFetches == 64

-----------------------------------------------------------------------------
(* Python values.                                                          *)

None == "<None>"
NoneDict == [none |-> TRUE]
NoneInt == -1
EmptyDict == [k \in {} |-> None]

Get(d, k, default) == IF k \in DOMAIN d THEN d[k] ELSE default

Max(a, b) == IF a >= b THEN a ELSE b

PyStr(fmt, strs, ints, chars) == [fmt |-> fmt, strs |-> strs, ints |-> ints, chars |-> chars]
Str(s) == PyStr(<<"{}">>, <<s>>, <<>>, <<>>)
NoText == PyStr(<<>>, <<>>, <<>>, <<>>)

Upper == <<"A","B","C","D","E","F","G","H","I","J","K","L","M",
           "N","O","P","Q","R","S","T","U","V","W","X","Y","Z">>
LowerCase == <<"a","b","c","d","e","f","g","h","i","j","k","l","m",
               "n","o","p","q","r","s","t","u","v","w","x","y","z">>

LowerChar(c) ==
    IF \E i \in 1..Len(Upper) : Upper[i] = c
    THEN LowerCase[CHOOSE i \in 1..Len(Upper) : Upper[i] = c]
    ELSE c

\* str.lower()
Lower(s) == [i \in 1..Len(s) |-> LowerChar(s[i])]

\* needle in hay
In(needle, hay) ==
    \E i \in 0..(Len(hay) - Len(needle)) :
        \A j \in 1..Len(needle) : hay[i + j] = needle[j]

-----------------------------------------------------------------------------
(* Task                                                                    *)

\* from_dict reading the text field before the content field
from_dict_text_first(data) ==
    LET submissions == Get(data, "submissions", <<>>)
    IN  [id |-> Get(data, "task_id", Get(data, "id", "")),
         status |-> Get(data, "status", ""),
         title |-> Get(data, "title", None),
         description |-> Get(data, "description", None),
         category |-> Get(data, "category", None),
         budget |-> Get(data, "budget_vae", Get(data, "budget", None)),
         result |-> IF submissions # <<>>
                    THEN Get(submissions[1], "text", Get(submissions[1], "content", None))
                    ELSE None,
         submissions |-> submissions,
         worker_id |-> Get(data, "worker_id", None),
         created_at |-> Get(data, "created_at", None),
         completed_at |-> Get(data, "completed_at", None),
         raw |-> data]

\* Task.from_dict
from_dict(data) ==
    LET task_id_ == Get(data, "task_id", Get(data, "id", ""))
        submissions == Get(data, "submissions", <<>>)
        result == IF submissions # <<>>
                  THEN Get(submissions[1], "content", Get(submissions[1], "text", None))
                  ELSE None
    IN  [id |-> task_id_,
         status |-> Get(data, "status", ""),
         title |-> Get(data, "title", None),
         description |-> Get(data, "description", None),
         category |-> Get(data, "category", None),
         budget |-> Get(data, "budget_vae", Get(data, "budget", None)),
         result |-> result,
         submissions |-> submissions,
         worker_id |-> Get(data, "worker_id", None),
         created_at |-> Get(data, "created_at", None),
         completed_at |-> Get(data, "completed_at", None),
         raw |-> data]

\* is_done that forgets "approved"
is_done_completed_only(t) == t.status = "completed"

is_done(t) == t.status \in {"completed", "approved"}

is_pending(t) == t.status \in {"active", "claimed", "submitted"}

NoTask == [none |-> TRUE]

-----------------------------------------------------------------------------
(* Exceptions                                                              *)

\* LoopumanError.__init__, for the class named by type
LoopumanError(type, message, status_code, response) ==
    [type |-> type,
     message |-> message,
     status_code |-> status_code,
     response |-> IF response = NoneDict \/ response = EmptyDict THEN EmptyDict ELSE response]

NoExc == [type |-> "none"]

\* isinstance(e, LoopumanError): the class and its two subclasses
IsLoopumanError(e) ==
    e.type \in {"LoopumanError", "InsufficientBalanceError", "TaskExpiredError"}

-----------------------------------------------------------------------------
(* Transport                                                               *)

Balance == <<"b","a","l","a","n","c","e">>
InsufficientBalance ==
    <<"i","n","s","u","f","f","i","c","i","e","n","t","_">> \o Balance

\* _request matching "balance" without lower-casing the message
_request_case_sensitive(r) ==
    LET data == IF r.is_json THEN r.json ELSE [raw |-> r.text]
        error_msg == Get(data, "error", Get(data, "message", r.text))
    IN  IF r.status_code >= 400
        THEN [raised |-> TRUE, data |-> data,
              exc |-> LoopumanError(IF In(Balance, error_msg)
                                    THEN "InsufficientBalanceError" ELSE "LoopumanError",
                                    PyStr(<<"API error {}: {}">>, <<>>, <<r.status_code>>, error_msg),
                                    r.status_code, data)]
        ELSE [raised |-> FALSE, data |-> data, exc |-> NoExc]

\* Loopuman._request, given the HTTP response the session returned:
\* what it raises, or the data it returns
_request(r) ==
    LET data == IF r.is_json THEN r.json ELSE [raw |-> r.text]
        error_msg == Get(data, "error", Get(data, "message", r.text))
    IN  IF r.status_code >= 400
        THEN IF In(InsufficientBalance, Lower(error_msg)) \/ In(Balance, Lower(error_msg))
             THEN [raised |-> TRUE, data |-> data,
                   exc |-> LoopumanError("InsufficientBalanceError",
                               PyStr(<<"Balance too low. Top up at loopuman.com or deposit crypto. Error: {}">>,
                                     <<>>, <<>>, error_msg),
                               r.status_code, data)]
             ELSE [raised |-> TRUE, data |-> data,
                   exc |-> LoopumanError("LoopumanError",
                               PyStr(<<"API error {}: {}">>, <<>>, <<r.status_code>>, error_msg),
                               r.status_code, data)]
        ELSE [raised |-> FALSE, data |-> data, exc |-> NoExc]

-----------------------------------------------------------------------------
(* The remote service: the HTTP responses the session may return.          *)

\* TaskStatus
TaskStatus == {"active", "claimed", "submitted", "completed", "approved",
               "expired", "disputed", "cancelled"}

NotFound == <<"n","o","t"," ","f","o","u","n","d">>
LowBALANCE == <<"L","o","w"," ","B","A","L","A","N","C","E">>
Balanc == <<"b","a","l","a","n","c">>

\* The JSON text of a one-key object, {"key":"value"}
JsonText1(key, value) ==
    <<"{", "\"">> \o key \o <<"\"", ":", "\"">> \o value \o <<"\"", "}">>

\* The JSON text of a two-key object
JsonText2(k1, v1, k2, v2) ==
    <<"{", "\"">> \o k1 \o <<"\"", ":", "\"">> \o v1 \o <<"\"", ",", "\"">>
        \o k2 \o <<"\"", ":", "\"">> \o v2 \o <<"\"", "}">>

ErrorKey == <<"e","r","r","o","r">>
MessageKey == <<"m","e","s","s","a","g","e">>
DetailKey == <<"d","e","t","a","i","l">>

\* A body that parses as JSON.  text is the body as sent; for the task
\* bodies below it is left opaque, as _request reads resp.text only when the
\* body does not parse or carries neither an error nor a message field.
JsonBody(code, json, text) ==
    [status_code |-> code, is_json |-> TRUE, json |-> json, text |-> text]

\* A body that does not parse as JSON
TextBody(code, text) ==
    [status_code |-> code, is_json |-> FALSE, json |-> EmptyDict, text |-> text]

OpaqueText == <<"{", "}">>

NoResp == TextBody(0, <<>>)

ErrorResponses ==
    { JsonBody(402, [error |-> InsufficientBalance], JsonText1(ErrorKey, InsufficientBalance)),
      JsonBody(402, [message |-> LowBALANCE], JsonText1(MessageKey, LowBALANCE)),
      JsonBody(404, [error |-> NotFound], JsonText1(ErrorKey, NotFound)),
      JsonBody(400, [error |-> NotFound, message |-> LowBALANCE],
               JsonText2(ErrorKey, NotFound, MessageKey, LowBALANCE)),
      JsonBody(400, [message |-> NotFound], JsonText1(MessageKey, NotFound)),
      JsonBody(403, [detail |-> LowBALANCE], JsonText1(DetailKey, LowBALANCE)),
      JsonBody(403, [detail |-> NotFound], JsonText1(DetailKey, NotFound)),
      JsonBody(400, [error |-> Balanc], JsonText1(ErrorKey, Balanc)),
      JsonBody(400, EmptyDict, OpaqueText),
      TextBody(500, NotFound),
      TextBody(503, LowBALANCE),
      TextBody(502, <<>>) }

\* Responses below 400 that are no task
PlainResponses ==
    { JsonBody(399, [error |-> InsufficientBalance], JsonText1(ErrorKey, InsufficientBalance)),
      JsonBody(200, [balance |-> Balance], OpaqueText),
      JsonBody(204, EmptyDict, OpaqueText),
      TextBody(200, NotFound),
      TextBody(302, LowBALANCE) }

\* The submissions a task payload may carry (absent, empty, or records
\* with a content and/or a text field)
SubmissionParts ==
    { EmptyDict,
      [submissions |-> <<>>],
      [submissions |-> <<[content |-> "yes"]>>],
      [submissions |-> <<[content |-> ""]>>],
      [submissions |-> <<[text |-> "typed"]>>],
      [submissions |-> <<[content |-> "yes", text |-> "typed"]>>],
      [submissions |-> <<[worker |-> "w1"]>>],
      [submissions |-> <<[text |-> "typed"], [content |-> "second"]>>] }

IdParts == { EmptyDict, [task_id |-> "t1"], [id |-> "t2"], [task_id |-> "t1", id |-> "t2"] }

StatusParts == { EmptyDict } \cup { [status |-> s] : s \in TaskStatus }

\* A task payload as the service sends it
Payloads(ids, statuses, subs) == { i @@ s @@ u : i \in ids, s \in statuses, u \in subs }

\* The two shapes of a task response: the task itself, or nested under "task"
TaskResponses(payloads) ==
    { JsonBody(200, p, OpaqueText) : p \in payloads }
        \cup { JsonBody(200, [task |-> p], OpaqueText) : p \in payloads }

\* What GET /tasks/{id} may answer while wait polls: every status of
\* TaskStatus and a payload without a status, with and without a submitted
\* result, in both shapes; two failures; and a body that is no JSON
FetchResponses ==
    { JsonBody(200, [task_id |-> "t1", status |-> s], OpaqueText) :
          s \in {"active", "claimed", "completed", "expired", "cancelled"} }
        \cup { JsonBody(200, [task_id |-> "t1", status |-> s,
                              submissions |-> <<[content |-> "yes"]>>], OpaqueText) :
                   s \in {"submitted", "completed", "approved", "disputed"} }
        \cup { JsonBody(200, [task_id |-> "t1", status |-> "approved",
                              submissions |-> <<[content |-> ""]>>], OpaqueText),
               JsonBody(200, [task_id |-> "t1"], OpaqueText),
               JsonBody(200, [task |-> [task_id |-> "t1", status |-> "active"]], OpaqueText),
               JsonBody(200, [task |-> [task_id |-> "t1", status |-> "expired"]], OpaqueText),
               JsonBody(200, [task |-> [task_id |-> "t1", status |-> "completed",
                                        submissions |-> <<[text |-> "typed"]>>]], OpaqueText),
               JsonBody(402, [message |-> LowBALANCE], JsonText1(MessageKey, LowBALANCE)),
               JsonBody(404, [error |-> NotFound], JsonText1(ErrorKey, NotFound)),
               TextBody(200, NotFound) }

\* The id a creation response gives the task
ReportedId(r) ==
    LET p == Get(r.json, "task", r.json)
    IN  Get(p, "task_id", Get(p, "id", ""))

\* What POST /tasks may answer
CreateResponses ==
    { JsonBody(200, [task_id |-> "t1", status |-> "active"], OpaqueText),
      JsonBody(200, [task |-> [id |-> "t2", status |-> "active"]], OpaqueText),
      JsonBody(200, [status |-> "active"], OpaqueText),
      JsonBody(402, [error |-> InsufficientBalance], JsonText1(ErrorKey, InsufficientBalance)),
      JsonBody(404, [error |-> NotFound], JsonText1(ErrorKey, NotFound)) }

\* What POST /tasks may answer a creation that ask sends
AskCreateResponses ==
    { r \in CreateResponses : r.status_code >= 400 \/ ReportedId(r) # "" }

-----------------------------------------------------------------------------
(* Lifecycle controller                                                    *)

DefaultPollInterval == 15
DefaultMaxWait == 900
DefaultBudget == 50
DefaultEstimatedSeconds == 120
MinBudget == 10

\* bool(s) of an Optional[str]
Truthy(s) == s # None /\ s # ""

NoKeyMessage ==
    PyStr(<<"No API key. Set LOOPUMAN_API_KEY env var or pass api_key=. Register free at https://loopuman.com (promo code CLAW500 for $5 credit).">>,
          <<>>, <<>>, <<>>)

\* Loopuman.__init__, given the api_key argument and the LOOPUMAN_API_KEY
\* environment variable: the exception it raises, or NoExc
Loopuman_init(api_key, env) ==
    LET key == IF Truthy(api_key) THEN api_key ELSE env
    IN  IF ~Truthy(key)
        THEN LoopumanError("LoopumanError", NoKeyMessage, NoneInt, NoneDict)
        ELSE NoExc

\* The budget sent as given
clamp_budget_none(budget) == budget

\* The budget create_task and create_task_sync put in the payload
clamp_budget(budget) == Max(budget, MinBudget)

\* The JSON payload of create_task (title omitted: it is falsy by default)
create_task_payload(description, category, budget, estimated_seconds, priority, max_workers) ==
    [description |-> description,
     category |-> category,
     budget_vae |-> clamp_budget(budget),
     estimated_seconds |-> estimated_seconds,
     priority |-> priority,
     max_workers |-> max_workers]

\* The JSON payload of create_task_sync
create_task_sync_payload(description, category, budget, estimated_seconds, priority) ==
    [description |-> description,
     category |-> category,
     budget_vae |-> clamp_budget(budget),
     estimated_seconds |-> estimated_seconds,
     priority |-> priority]

\* The priority ask passes to create_task
ask_priority == "high"

\* The request a creation sends
CreateRequest(path, payload) == [method |-> "POST", path |-> path, json |-> payload]

\* What a method does with the response to its request: _request, then
\* Task.from_dict(data.get("task", data))
task_from_response(r) ==
    LET q == _request(r)
    IN  IF q.raised
        THEN [raised |-> TRUE, exc |-> q.exc, task |-> NoTask]
        ELSE [raised |-> FALSE, exc |-> NoExc, task |-> from_dict(Get(q.data, "task", q.data))]

\* get_task swallowing a failed request: the error body is read as a task,
\* so that wait goes on to its next poll
get_task_swallowing(r) ==
    LET q == _request(r)
    IN  [raised |-> FALSE, exc |-> NoExc, task |-> from_dict(Get(q.data, "task", q.data))]

\* Loopuman.get_task, given the response to its GET
get_task(r) == task_from_response(r)

\* The failure statuses without "disputed"
wait_failure_statuses_no_disputed == {"expired", "cancelled"}

\* The statuses on which wait raises
wait_failure_statuses == {"expired", "cancelled", "disputed"}

TaskExpiredMessage(id, status) ==
    PyStr(<<"Task {} ended with status: {}">>, <<id, status>>, <<>>, <<>>)

\* wait_check raising TaskExpiredError without response=task.raw
wait_check_no_payload(id, t) ==
    IF is_done(t)
    THEN [kind |-> "return", exc |-> NoExc]
    ELSE IF t.status \in {"expired", "cancelled", "disputed"}
         THEN [kind |-> "raise",
               exc |-> LoopumanError("TaskExpiredError", TaskExpiredMessage(id, t.status),
                                     NoneInt, NoneDict)]
         ELSE [kind |-> "sleep", exc |-> NoExc]

\* The body of wait's loop after its get_task: return, raise or sleep
wait_check(id, t) ==
    IF is_done(t)
    THEN [kind |-> "return", exc |-> NoExc]
    ELSE IF t.status \in wait_failure_statuses
         THEN [kind |-> "raise",
               exc |-> LoopumanError("TaskExpiredError", TaskExpiredMessage(id, t.status),
                                     NoneInt, t.raw)]
         ELSE [kind |-> "sleep", exc |-> NoExc]

\* The loop condition with <= for <
wait_continues_inclusive(elapsed_, max_wait_) == elapsed_ <= max_wait_

\* wait's loop condition
wait_continues(elapsed_, max_wait_) == elapsed_ < max_wait_

\* elapsed += poll_interval
wait_advance(elapsed_, poll_interval_) == elapsed_ + poll_interval_

\* ask_result falling back only when the result is None
ask_result_none_only(completed) ==
    IF completed.result # None
    THEN Str(completed.result)
    ELSE PyStr(<<"Task {} -- no result yet.">>, <<completed.status>>, <<>>, <<>>)

\* ask's return value, from the Task wait returned
ask_result(completed) ==
    IF Truthy(completed.result)
    THEN Str(completed.result)
    ELSE PyStr(<<"Task {} -- no result yet.">>, <<completed.status>>, <<>>, <<>>)

-----------------------------------------------------------------------------
(* Adapters                                                                *)

\* The callables whose body is try: ... except LoopumanError
CatchingCallables ==
    {"langchain.loopuman_human_task", "crewai.loopuman_human_task", "ask_human_worker"}

\* Whether the entry point running catches exception e
Catches(op_, e) == op_ \in CatchingCallables /\ IsLoopumanError(e)

\* f"Human task failed: {e}"
HumanTaskFailed(e) ==
    PyStr(<<"Human task failed: {}">> \o e.message.fmt,
          e.message.strs, e.message.ints, e.message.chars)

\* The factory of each callable
Factories ==
    [langchain_tool |-> "langchain.loopuman_human_task",
     crewai_tool |-> "crewai.loopuman_human_task",
     autogen_function_map |-> "ask_human_worker"]

-----------------------------------------------------------------------------
(* Observers                                                               *)

\* A counter that stops at MaxFetches
Bump(n) == IF n < MaxFetches THEN n + 1 ELSE n

\* The status a fetch response reports for the task ("<error>" for a
\* response the transport turns into a failure)
ReportedStatus(r) ==
    IF r.status_code >= 400
    THEN "<error>"
    ELSE LET d == IF r.is_json THEN r.json ELSE EmptyDict
         IN  Get(Get(d, "task", d), "status", "")

\* The body of a response as _request parses it: the JSON value, else
\* the raw text under the key "raw"
ParsedBody(r) == IF r.is_json THEN r.json ELSE [raw |-> r.text]

\* The task payload of a response: the value under "task", else the body
TaskPayload(r) == Get(ParsedBody(r), "task", ParsedBody(r))

\* The terminal statuses of the task state machine
Done == {"completed", "approved"}
TerminalFailure == {"expired", "cancelled", "disputed"}

NonTerminal(status) == status \notin Done \cup TerminalFailure /\ status # "<error>"

-----------------------------------------------------------------------------
(* The state machine: one caller, one entry point per behaviour.           *)

Init ==
    /\ pc = "idle"
    /\ op = "none"
    /\ poll_interval = 0
    /\ max_wait = 0
    /\ task_id = None
    /\ elapsed = 0
    /\ task = NoTask
    /\ resp = NoResp
    /\ creates = <<>>
    /\ budget_vae = DefaultBudget
    /\ fetches = 0
    /\ fetch_id = None
    /\ sleeps = 0
    /\ clean = TRUE
    /\ wait_exit = "none"
    /\ outcome = "none"
    /\ ret_task = NoTask
    /\ ret_text = NoText
    /\ ret_data = NoneDict
    /\ exc = NoExc

\* The arguments a caller gives wait: small values, and the pairs the
\* documentation uses
WaitArgs ==
    ((0..MaxPoll) \X (0..MaxWait))
        \cup {<<DefaultPollInterval, 30>>, <<DefaultPollInterval, DefaultMaxWait>>}

Budgets == (-2 .. MaxBudget) \cup {DefaultBudget}
AskBudgets == {MinBudget - 5, DefaultBudget}
AskMaxWaits == {0, MaxWait, DefaultMaxWait}
ApiKeys == {None, "", "sk_live"}
EnvKeys == {None, "sk_env"}

\* An exception e leaves the code of entry point op_: an adapter's except
\* clause turns it into text, anything else lets it escape to the caller
RaiseOut(op_, e) ==
    /\ pc' = "done"
    /\ IF Catches(op_, e)
       THEN outcome' = "returned" /\ ret_text' = HumanTaskFailed(e) /\ exc' = exc
       ELSE outcome' = "raised" /\ exc' = e /\ ret_text' = ret_text
    /\ ret_task' = ret_task
    /\ ret_data' = ret_data

\* client.wait(task_id, poll_interval, max_wait), up to the loop
CallWait ==
    /\ pc = "idle"
    /\ \E a \in WaitArgs :
        /\ poll_interval' = a[1]
        /\ max_wait' = a[2]
    /\ op' = "wait"
    /\ task_id' = "t1"
    /\ elapsed' = 0
    /\ pc' = "wait_loop"
    /\ UNCHANGED <<task, resp, creates, budget_vae, fetches, fetch_id, sleeps, clean, wait_exit,
                   outcome, ret_task, ret_text, ret_data, exc>>

\* ask, entered from entry point op_: create_task with priority "high",
\* then the call of wait with the default poll_interval
AskStart(op_, budget_vae_, estimated_seconds, max_wait_, r) ==
    LET payload == create_task_payload("question", "other", budget_vae_,
                                       estimated_seconds, ask_priority, 1)
        c == task_from_response(r)
    IN  /\ op' = op_
        /\ creates' = Append(creates, CreateRequest("/tasks", payload))
        /\ budget_vae' = budget_vae_
        /\ resp' = r
        /\ IF c.raised
           THEN /\ RaiseOut(op_, c.exc)
                /\ UNCHANGED <<poll_interval, max_wait, task_id, elapsed>>
           ELSE /\ pc' = "wait_loop"
                /\ task_id' = c.task.id
                /\ poll_interval' = DefaultPollInterval
                /\ max_wait' = max_wait_
                /\ elapsed' = 0
                /\ UNCHANGED <<outcome, ret_task, ret_text, ret_data, exc>>
        /\ UNCHANGED <<task, fetches, fetch_id, sleeps, clean, wait_exit>>

\* client.ask(question, budget_vae=, max_wait=)
CallAsk ==
    /\ pc = "idle"
    /\ \E b \in AskBudgets, w \in AskMaxWaits, r \in AskCreateResponses :
        AskStart("ask", b, DefaultEstimatedSeconds, w, r)

\* One iteration of wait's loop up to the sleep: get_task, the is_done
\* test and the terminal-failure test
LoopFetch ==
    /\ pc = "wait_loop"
    /\ wait_continues(elapsed, max_wait)
    /\ \E r \in FetchResponses :
        LET g == get_task(r)
            w == wait_check(task_id, g.task)
        IN  /\ resp' = r
            /\ fetches' = Bump(fetches)
            /\ fetch_id' = task_id
            /\ clean' = (clean /\ (fetches = 0 \/ NonTerminal(ReportedStatus(resp))))
            /\ IF g.raised
               THEN /\ wait_exit' = "error"
                    /\ RaiseOut(op, g.exc)
                    /\ task' = task
               ELSE /\ task' = g.task
                    /\ IF w.kind = "return"
                       THEN /\ wait_exit' = "success"
                            /\ IF op = "wait"
                               THEN pc' = "done" /\ outcome' = "returned" /\ ret_task' = g.task
                               ELSE pc' = "ask_return" /\ UNCHANGED <<outcome, ret_task>>
                            /\ UNCHANGED <<ret_text, ret_data, exc>>
                       ELSE IF w.kind = "raise"
                            THEN wait_exit' = "failure" /\ RaiseOut(op, w.exc)
                            ELSE /\ pc' = "wait_sleep"
                                 /\ UNCHANGED <<wait_exit, outcome, ret_task, ret_text, ret_data, exc>>
    /\ UNCHANGED <<op, poll_interval, max_wait, task_id, elapsed, creates, budget_vae, sleeps>>

\* time.sleep(poll_interval); elapsed += poll_interval
Sleep ==
    /\ pc = "wait_sleep"
    /\ sleeps' = Bump(sleeps)
    /\ elapsed' = wait_advance(elapsed, poll_interval)
    /\ pc' = "wait_loop"
    /\ UNCHANGED <<op, poll_interval, max_wait, task_id, task, resp, creates, budget_vae, fetches,
                   fetch_id, clean, wait_exit, outcome, ret_task, ret_text, ret_data, exc>>

\* The loop has ended: the final get_task, returned whatever its state
FinalFetch ==
    /\ pc = "wait_loop"
    /\ ~wait_continues(elapsed, max_wait)
    /\ \E r \in FetchResponses :
        LET g == get_task(r)
        IN  /\ resp' = r
            /\ fetches' = Bump(fetches)
            /\ fetch_id' = task_id
            /\ clean' = (clean /\ (fetches = 0 \/ NonTerminal(ReportedStatus(resp))))
            /\ IF g.raised
               THEN /\ wait_exit' = "error"
                    /\ RaiseOut(op, g.exc)
                    /\ task' = task
               ELSE /\ task' = g.task
                    /\ wait_exit' = "timeout"
                    /\ IF op = "wait"
                       THEN pc' = "done" /\ outcome' = "returned" /\ ret_task' = g.task
                       ELSE pc' = "ask_return" /\ UNCHANGED <<outcome, ret_task>>
                    /\ UNCHANGED <<ret_text, ret_data, exc>>
    /\ UNCHANGED <<op, poll_interval, max_wait, task_id, elapsed, creates, budget_vae, sleeps>>

\* ask's last line: completed.result or the fallback text
AskReturn ==
    /\ pc = "ask_return"
    /\ pc' = "done"
    /\ outcome' = "returned"
    /\ ret_text' = ask_result(task)
    /\ UNCHANGED <<op, poll_interval, max_wait, task_id, elapsed, task, resp, creates, budget_vae,
                   fetches, fetch_id, sleeps, clean, wait_exit, ret_task, ret_data, exc>>

\* ask_human(question, budget_vae=, api_key=): Loopuman(api_key), then ask
CallAskHuman ==
    /\ pc = "idle"
    /\ \E k \in ApiKeys, e \in EnvKeys, b \in AskBudgets, r \in AskCreateResponses :
        LET x == Loopuman_init(k, e)
        IN  IF x # NoExc
            THEN /\ op' = "ask_human"
                 /\ RaiseOut("ask_human", x)
                 /\ UNCHANGED <<poll_interval, max_wait, task_id, elapsed, task, resp,
                                creates, budget_vae, fetches, fetch_id, sleeps, clean, wait_exit>>
            ELSE AskStart("ask_human", b, DefaultEstimatedSeconds, DefaultMaxWait, r)

\* langchain_tool(api_key), crewai_tool(api_key), autogen_function_map(api_key):
\* Loopuman(api_key), then the callable is handed to the framework
Factory ==
    /\ pc = "idle"
    /\ \E f \in DOMAIN Factories, k \in ApiKeys, e \in EnvKeys :
        LET x == Loopuman_init(k, e)
        IN  /\ op' = f
            /\ IF x # NoExc
               THEN pc' = "done" /\ outcome' = "raised" /\ exc' = x
               ELSE pc' = "tool_ready" /\ UNCHANGED <<outcome, exc>>
    /\ UNCHANGED <<poll_interval, max_wait, task_id, elapsed, task, resp, creates, budget_vae, fetches,
                   fetch_id, sleeps, clean, wait_exit, ret_task, ret_text, ret_data>>

\* The budgets a callable passes to ask: the two tools pass 50, the
\* function-map entry passes its budget_vae argument
CallableBudgets(callable) ==
    IF callable = "ask_human_worker" THEN AskBudgets ELSE {DefaultBudget}

\* The framework calls the callable: try: client.ask(...)
Invoke ==
    /\ pc = "tool_ready"
    /\ \E b \in CallableBudgets(Factories[op]), r \in AskCreateResponses :
        AskStart(Factories[op], b, DefaultEstimatedSeconds, DefaultMaxWait, r)

\* The responses a creation or a single fetch may get
AnyTaskResponses ==
    TaskResponses(Payloads(IdParts, StatusParts, SubmissionParts)) \cup ErrorResponses

\* client.create_task(description, budget_vae=, priority=)
CallCreateTask ==
    /\ pc = "idle"
    /\ \E b \in Budgets, priority \in {"normal", "high"}, r \in CreateResponses :
        LET payload == create_task_payload("do it", "other", b, DefaultEstimatedSeconds,
                                           priority, 1)
            c == task_from_response(r)
        IN  /\ op' = "create_task"
            /\ creates' = Append(creates, CreateRequest("/tasks", payload))
            /\ budget_vae' = b
            /\ resp' = r
            /\ IF c.raised
               THEN RaiseOut("create_task", c.exc)
               ELSE /\ pc' = "done"
                    /\ outcome' = "returned"
                    /\ ret_task' = c.task
                    /\ UNCHANGED <<ret_text, ret_data, exc>>
    /\ UNCHANGED <<poll_interval, max_wait, task_id, elapsed, task, fetches, fetch_id,
                   sleeps, clean, wait_exit>>

\* client.create_task_sync(description, budget_vae=, priority=)
CallCreateTaskSync ==
    /\ pc = "idle"
    /\ \E b \in Budgets, priority \in {"normal", "high"}, r \in CreateResponses :
        LET payload == create_task_sync_payload("do it", "other", b,
                                                DefaultEstimatedSeconds, priority)
            c == task_from_response(r)
        IN  /\ op' = "create_task_sync"
            /\ creates' = Append(creates, CreateRequest("/tasks/sync", payload))
            /\ budget_vae' = b
            /\ resp' = r
            /\ IF c.raised
               THEN RaiseOut("create_task_sync", c.exc)
               ELSE /\ pc' = "done"
                    /\ outcome' = "returned"
                    /\ ret_task' = c.task
                    /\ UNCHANGED <<ret_text, ret_data, exc>>
    /\ UNCHANGED <<poll_interval, max_wait, task_id, elapsed, task, fetches, fetch_id,
                   sleeps, clean, wait_exit>>

\* client.get_task(task_id)
CallGetTask ==
    /\ pc = "idle"
    /\ \E r \in AnyTaskResponses :
        LET g == get_task(r)
        IN  /\ resp' = r
            /\ IF g.raised
               THEN RaiseOut("get_task", g.exc)
               ELSE /\ pc' = "done"
                    /\ outcome' = "returned"
                    /\ ret_task' = g.task
                    /\ UNCHANGED <<ret_text, ret_data, exc>>
    /\ op' = "get_task"
    /\ fetches' = Bump(fetches)
    /\ fetch_id' = "t1"
    /\ UNCHANGED <<poll_interval, max_wait, task_id, elapsed, task, creates, budget_vae, sleeps,
                   clean, wait_exit>>

\* client._request(method, path)
CallRequest ==
    /\ pc = "idle"
    /\ \E r \in AnyTaskResponses \cup PlainResponses :
        LET q == _request(r)
        IN  /\ resp' = r
            /\ IF q.raised
               THEN RaiseOut("_request", q.exc)
               ELSE /\ pc' = "done"
                    /\ outcome' = "returned"
                    /\ ret_data' = q.data
                    /\ UNCHANGED <<ret_task, ret_text, exc>>
    /\ op' = "_request"
    /\ UNCHANGED <<poll_interval, max_wait, task_id, elapsed, task, creates, budget_vae, fetches,
                   fetch_id, sleeps, clean, wait_exit>>

Next ==
    \/ CallWait
    \/ CallAsk
    \/ CallAskHuman
    \/ Factory
    \/ Invoke
    \/ CallCreateTask
    \/ CallCreateTaskSync
    \/ CallGetTask
    \/ CallRequest
    \/ LoopFetch
    \/ Sleep
    \/ FinalFetch
    \/ AskReturn

Spec == Init /\ [][Next]_vars

-----------------------------------------------------------------------------
(* Properties                                                              *)

\* The entry points that run wait
WaitFamily == {"wait", "ask", "ask_human"} \cup CatchingCallables

\* The entry points that run ask
AskFamily == WaitFamily \ {"wait"}

\* wait has made at least one fetch and the observers still count exactly
Polled == op \in WaitFamily /\ fetches >= 1 /\ fetches < MaxFetches

\* The latest fetch was made inside the loop: elapsed was (fetches-1)*poll_interval
InLoop == (fetches - 1) * poll_interval < max_wait

Ceil(a, b) == (a + b - 1) \div b

\* C1: success exit of wait.  When the first k-1 fetches reported a status
\* that is neither done nor terminal-failed, the k-th reports completed or
\* approved and (k-1)*poll_interval < max_wait, wait has ended after exactly
\* these k fetches (and k-1 sleeps) by returning the Task built from the
\* k-th response, without raising; it never times out while
\* (k-1)*poll_interval < max_wait, and once it has returned a done task no
\* later fetch is made.
C1_SuccessExit ==
    /\ (Polled /\ clean /\ ReportedStatus(resp) \in Done /\ InLoop)
          => /\ wait_exit = "success"
             /\ sleeps = fetches - 1
             /\ task = from_dict(TaskPayload(resp))
             /\ op = "wait" => /\ pc = "done"
                               /\ outcome = "returned"
                               /\ ret_task = task
                               /\ exc = NoExc
    /\ (Polled /\ wait_exit = "timeout") => ~InLoop
    /\ (Polled /\ wait_exit = "success") => clean /\ ReportedStatus(resp) \in Done

C1_Witness ==
    /\ op = "wait" /\ pc = "done" /\ poll_interval = 0 /\ fetches = 3
    /\ outcome = "returned" /\ ret_task # NoTask /\ ret_task.status = "completed"

\* C2 as stated: terminal-failure exit of wait after exactly k fetches, the
\* payload of the raised failure being the k-th response.
C2_PayloadIsResponse ==
    (Polled /\ op = "wait" /\ clean /\ ReportedStatus(resp) \in TerminalFailure /\ InLoop)
        => /\ wait_exit = "failure"
           /\ sleeps = fetches - 1
           /\ pc = "done"
           /\ outcome = "raised"
           /\ exc.type = "TaskExpiredError"
           /\ exc.response = ParsedBody(resp)

\* C2, amended: when the first k-1 fetches reported a non-terminal status,
\* the k-th reports expired, cancelled or disputed and
\* (k-1)*poll_interval < max_wait, wait has ended after exactly these k
\* fetches and k-1 sleeps by raising TaskExpiredError, whose payload is the
\* task payload of the k-th response: the value under its "task" key when
\* the response nests the task, the response itself otherwise.
C2_FailureExit ==
    /\ (Polled /\ clean /\ ReportedStatus(resp) \in TerminalFailure /\ InLoop)
          => /\ wait_exit = "failure"
             /\ sleeps = fetches - 1
             /\ pc = "done"
             /\ op \in {"wait", "ask", "ask_human"}
                   => /\ outcome = "raised"
                      /\ exc.type = "TaskExpiredError"
                      /\ exc.response = TaskPayload(resp)
    /\ (Polled /\ wait_exit = "failure") => clean /\ ReportedStatus(resp) \in TerminalFailure

C2_Witness ==
    /\ op = "wait" /\ pc = "done" /\ fetches = 2 /\ sleeps = 1
    /\ outcome = "raised" /\ exc.type = "TaskExpiredError"
    /\ "task" \in DOMAIN resp.json
    /\ exc.response = resp.json.task

\* C3: timeout exit of wait.  When every fetch reported a non-terminal
\* status, poll_interval >= 1 and max_wait >= 1, wait ends only by its
\* timeout exit, after exactly ceil(max_wait / poll_interval) + 1 fetches,
\* returning the Task of the last fetch without raising.
C3_TimeoutExit ==
    (/\ Polled /\ wait_exit # "none" /\ clean /\ NonTerminal(ReportedStatus(resp))
     /\ poll_interval >= 1 /\ max_wait >= 1)
        => /\ wait_exit = "timeout"
           /\ fetches = Ceil(max_wait, poll_interval) + 1
           /\ sleeps = fetches - 1
           /\ elapsed = sleeps * poll_interval
           /\ task = from_dict(TaskPayload(resp))
           /\ op = "wait" => /\ pc = "done"
                             /\ outcome = "returned"
                             /\ ret_task = task
                             /\ exc = NoExc

C3_Witness ==
    /\ op = "wait" /\ pc = "done" /\ poll_interval = 15 /\ max_wait = 30
    /\ wait_exit = "timeout" /\ fetches = 3 /\ outcome = "returned"
    /\ is_pending(ret_task)

\* C4 as stated: a terminal-failure status wait observes always ends in a
\* raised failure, and wait never returns a Task whose status is expired,
\* cancelled or disputed.
C4_NeverReturnsFailed ==
    /\ (Polled /\ ReportedStatus(resp) \in TerminalFailure) => wait_exit = "failure"
    /\ (op = "wait" /\ outcome = "returned") => ret_task.status \notin TerminalFailure

\* C4, amended: a terminal-failure status reported to a fetch made inside
\* the loop (while elapsed < max_wait) always ends wait in a raised
\* TaskExpiredError, and a Task returned from the loop is done; the Task of
\* the final fetch, made once elapsed >= max_wait, is returned whatever its
\* status, terminal-failure statuses included.
C4_Asymmetry ==
    /\ (Polled /\ InLoop /\ ReportedStatus(resp) \in TerminalFailure)
          => /\ wait_exit = "failure"
             /\ op = "wait" => outcome = "raised" /\ exc.type = "TaskExpiredError"
    /\ (Polled /\ op = "wait" /\ outcome = "returned")
          => \/ wait_exit = "success" /\ InLoop /\ is_done(ret_task)
             \/ /\ wait_exit = "timeout" /\ ~InLoop
                /\ ret_task = from_dict(TaskPayload(resp))
    /\ (Polled /\ ~InLoop /\ resp.status_code < 400) => wait_exit = "timeout"

C4_Witness ==
    /\ op = "wait" /\ pc = "done" /\ outcome = "returned" /\ wait_exit = "timeout"
    /\ ret_task # NoTask /\ ret_task.status = "expired"

\* The callables the adapter surface hands to a caller
AdapterCallables == CatchingCallables \cup {"ask_human"}

\* C5: a call of an adapter callable (ask_human, the LangChain tool, the
\* CrewAI tool, ask_human_worker) always ends by returning a text; no
\* failure raised while it runs escapes to the caller.
C5_AdaptersNeverRaise ==
    (pc = "done" /\ op \in AdapterCallables) => outcome = "returned" /\ exc = NoExc

\* What the three callables with an except clause do
C5_CatchingCallablesReturnText ==
    (pc = "done" /\ op \in CatchingCallables)
        => outcome = "returned" /\ exc = NoExc /\ ret_text # NoText

\* The fallback text of ask for a task of the given status
Fallback(status) == PyStr(<<"Task {} -- no result yet.">>, <<status>>, <<>>, <<>>)

HasResultText(t) == t.result # None /\ t.result # ""

\* ask has started: its creation request is out
AskRunning == op \in AskFamily /\ creates # <<>>

\* What ask does up to its return value: one creation request, with
\* priority "high", then wait on the id of the created task, and the text
\* returned from the Task wait returned
AskComposes ==
    /\ op \in AskFamily => Len(creates) <= 1
    /\ AskRunning
          => /\ creates[1].method = "POST" /\ creates[1].path = "/tasks"
             /\ creates[1].json.priority = "high"
             /\ (pc = "wait_loop" /\ fetches = 0) => task_id = ReportedId(resp)
             /\ fetches >= 1 => fetch_id = task_id
             /\ (resp.status_code >= 400 /\ fetches = 0) => wait_exit = "none" /\ pc = "done"
    /\ (AskRunning /\ pc = "done" /\ wait_exit \in {"success", "timeout"})
          => /\ task = from_dict(TaskPayload(resp))
             /\ outcome = "returned"
             /\ exc = NoExc
             /\ ret_text = IF HasResultText(task) THEN Str(task.result)
                                                  ELSE Fallback(task.status)

\* C6 as stated: ask sends one creation request with priority "high",
\* waits on the created id and returns the result or the fallback text; on
\* wait's timeout exit with a still-pending task it returns the fallback
\* text.
C6_PendingTimeoutGivesFallback ==
    /\ AskComposes
    /\ (AskRunning /\ pc = "done" /\ wait_exit = "timeout" /\ is_pending(task))
          => outcome = "returned" /\ ret_text = Fallback(task.status)

\* C6, amended: ask sends exactly one creation request, with priority
\* "high", then waits on the id of the created task, and returns the result
\* of the Task wait returned or, when that Task has no result text, the
\* fallback text with the Task's status; in particular on wait's timeout
\* exit with a still-pending task that carries no result text ask returns
\* the fallback text and does not raise (a pending task that already
\* carries a submission's text yields that text).
C6_AskComposition ==
    /\ AskComposes
    /\ (AskRunning /\ pc = "done" /\ wait_exit = "timeout" /\ is_pending(task)
            /\ ~HasResultText(task))
          => outcome = "returned" /\ exc = NoExc /\ ret_text = Fallback(task.status)

C6_Witness ==
    /\ op = "ask" /\ pc = "done" /\ wait_exit = "timeout" /\ is_pending(task)
    /\ outcome = "returned" /\ ret_text = Fallback("active")
    /\ Len(creates) = 1 /\ fetches = 2

\* The error message text of a response: the body's error field, else its
\* message field, else the raw body text
ErrorText(r) ==
    LET d == ParsedBody(r)
    IN  IF "error" \in DOMAIN d THEN d.error
        ELSE IF "message" \in DOMAIN d THEN d.message
        ELSE r.text

\* text contains "balance", whatever the case of its letters
MentionsBalance(text) ==
    \E i \in 1..Len(text) :
        /\ i + 6 <= Len(text)
        /\ \A j \in 0..6 : text[i + j] \in {Balance[j + 1], Upper[CHOOSE n \in 1..26 : LowerCase[n] = Balance[j + 1]]}

\* C7: transport error mapping.  A response with status >= 400 makes
\* _request raise: InsufficientBalanceError exactly when the error message
\* text contains "balance" in any case, LoopumanError otherwise, both
\* carrying the status code and the parsed body; a response with status
\* < 400 raises nothing and the parsed body (the raw text under "raw" when
\* it is no JSON) is returned.
C7_ErrorMapping ==
    (op = "_request" /\ pc = "done")
        => IF resp.status_code >= 400
           THEN /\ outcome = "raised"
                /\ exc.type = IF MentionsBalance(ErrorText(resp))
                              THEN "InsufficientBalanceError" ELSE "LoopumanError"
                /\ exc.status_code = resp.status_code
                /\ exc.response = ParsedBody(resp)
                /\ ret_data = NoneDict
           ELSE /\ outcome = "returned"
                /\ exc = NoExc
                /\ ret_data = ParsedBody(resp)

C7_Witness ==
    /\ op = "_request" /\ pc = "done" /\ outcome = "raised"
    /\ exc.type = "InsufficientBalanceError" /\ exc.status_code = 402
    /\ ErrorText(resp) = LowBALANCE

\* C8: budget floor clamp.  Every creation request carries budget 10 when
\* the caller's budget_vae is below 10 and the caller's budget_vae otherwise.
C8_BudgetClamp ==
    creates # <<>>
        => /\ Len(creates) = 1
           /\ creates[1].json.budget_vae = IF budget_vae < 10 THEN 10 ELSE budget_vae

C8_Witness ==
    /\ op = "create_task_sync" /\ budget_vae = 3 /\ creates # <<>>
    /\ creates[1].json.budget_vae = 10

\* C9: result extraction.  The Task normalised from a response has as its
\* result submissions[0].content when the submissions are non-empty and
\* their first record has a content field, else submissions[0].text when it
\* has a text field, else none; none too when the submissions are absent or
\* empty; normalisation raises nothing and keeps the payload as raw.
C9_ResultExtraction ==
    (op = "get_task" /\ pc = "done" /\ resp.status_code < 400)
        => LET d == TaskPayload(resp)
               subs == IF "submissions" \in DOMAIN d THEN d.submissions ELSE <<>>
           IN  /\ outcome = "returned"
               /\ exc = NoExc
               /\ ret_task.raw = d
               /\ ret_task.result =
                     IF Len(subs) = 0 THEN None
                     ELSE IF "content" \in DOMAIN subs[1] THEN subs[1].content
                     ELSE IF "text" \in DOMAIN subs[1] THEN subs[1].text
                     ELSE None

C9_Witness ==
    /\ op = "get_task" /\ pc = "done" /\ outcome = "returned"
    /\ ret_task.result = "typed"
    /\ Len(ret_task.submissions) = 2

-----------------------------------------------------------------------------
(* wait alone, with the calling thread always taking its next step.        *)

NextWait ==
    \/ CallWait
    \/ LoopFetch
    \/ Sleep
    \/ FinalFetch

LiveSpec == Init /\ [][NextWait]_vars /\ WF_vars(NextWait)

\* C10 as stated: for every poll_interval >= 0 and max_wait >= 0 and every
\* sequence of reported statuses, wait eventually returns or raises.
C10_AlwaysTerminates == <>(pc = "done")

\* What the loop does guarantee: for poll_interval >= 1, and for
\* max_wait = 0, wait eventually returns or raises, after at most
\* ceil(max_wait / poll_interval) + 1 fetches (one fetch when max_wait = 0).
\* With poll_interval = 0 and max_wait > 0 elapsed never grows, and wait
\* ends only when a fetch reports a done or terminal-failure status or fails.
C10_TerminatesWhenElapsedGrows ==
    /\ [](op = "wait" /\ (poll_interval >= 1 \/ max_wait = 0) => <>(pc = "done"))
    /\ [](op = "wait" /\ poll_interval >= 1 => fetches <= Ceil(max_wait, poll_interval) + 1)
    /\ [](op = "wait" /\ max_wait = 0 => fetches <= 1)

C10_Witness ==
    /\ op = "wait" /\ pc = "done" /\ poll_interval = 1 /\ max_wait = MaxWait
    /\ wait_exit = "timeout" /\ fetches = MaxWait + 1 /\ elapsed = MaxWait

-----------------------------------------------------------------------------
(* Transport failures in the core.                                         *)

\* The session answered the latest request with a transport failure
Failed(r) == r.status_code >= 400

\* The failure _request raises for a failed response
TransportFailure(r) == _request(r).exc

\* The failure reached the direct caller of the core: it escaped the entry
\* point, or the adapter callable that called ask turned it into its text
Propagated(e) ==
    /\ pc = "done"
    /\ IF op \in CatchingCallables
       THEN outcome = "returned" /\ ret_text = HumanTaskFailed(e)
       ELSE outcome = "raised" /\ exc = e

\* The requests sent when the latest one failed: a fetch inside wait is
\* the last of k fetches after k-1 sleeps; a create inside ask is the only
\* request, with no fetch and no sleep; create_task, create_task_sync and
\* get_task sent their one request
NoFurtherRequest ==
    /\ op \in WaitFamily /\ fetches >= 1 =>
          /\ wait_exit = "error"
          /\ fetch_id = task_id
          /\ fetches < MaxFetches => sleeps = fetches - 1
          /\ op \in AskFamily => Len(creates) = 1
    /\ op \in AskFamily /\ fetches = 0 =>
          Len(creates) = 1 /\ sleeps = 0 /\ wait_exit = "none" /\ task = NoTask
    /\ op \in {"create_task", "create_task_sync"} =>
          Len(creates) = 1 /\ fetches = 0 /\ sleeps = 0
    /\ op = "get_task" => fetches = 1 /\ sleeps = 0 /\ creates = <<>>
    /\ op = "_request" => fetches = 0 /\ sleeps = 0 /\ creates = <<>>

\* C11: when a request fails with a transport failure (generic or
\* Insufficient-Balance), the failure _request raised for that response
\* reaches the caller at once and the thread takes no further step: a
\* failed fetch inside wait, in the loop or the final one, ends wait with
\* that failure with no further fetch or sleep, and a failed create inside
\* ask ends ask with that failure after zero fetches.
C11_NoRetryImmediatePropagation ==
    /\ [](Failed(resp) => Propagated(TransportFailure(resp)) /\ NoFurtherRequest)
    /\ [][~Failed(resp)]_vars

\* wait's second fetch, after one sleep, is answered 402 with a balance
\* message, and wait raises the Insufficient-Balance failure
C11_Witness ==
    /\ op = "wait" /\ pc = "done" /\ Failed(resp) /\ resp.status_code = 402
    /\ wait_exit = "error" /\ fetches = 2 /\ sleeps = 1
    /\ outcome = "raised" /\ exc.type = "InsufficientBalanceError"
    /\ exc = TransportFailure(resp)

====
